---- MODULE Spec2Model ----
(***************************************************************************)
(* The three build utilities of class-notes-frontend as one state machine  *)
(* over a small file system:                                               *)
(*   generate_app_icons.py    the App Icon Generator                       *)
(*   download_google_logo.py  the Logo Placeholder Generator               *)
(*   fix_project.py           the Project Reference Scrubber               *)
(* A behaviour picks one script and invokes it up to MaxRuns times; every  *)
(* statement of a script that touches the file system, the standard output *)
(* or the exit status is one step.  An image keeps its colour mode, width  *)
(* and height; its pixels are abstracted to how they were made (a fill     *)
(* colour, a resampling, or the file they were read from).                 *)
(***************************************************************************)
EXTENDS Integers, Sequences, FiniteSets, TLC

VARIABLES
    script,          \* which utility this behaviour runs
    pc,              \* position in the script
    runs,            \* invocations started so far
    argv,            \* sys.argv of the current invocation
    exitCode,        \* process exit status, -1 while none
    out,             \* lines printed by the current invocation
    dirs,            \* directories that exist
    files,           \* path -> file content
    source_img,      \* generate_icons: the opened source image
    i,               \* index of the running for loop
    content,         \* fix_project: the text read / to be written
    lines,           \* fix_project: content.split('\n')
    filtered_lines,  \* fix_project: the lines kept so far
    pre,             \* history: dirs and files when the invocation started
    ops,             \* history: file system writes of the current invocation
    first            \* history: dirs and files when the first run completed

vars == <<script, pc, runs, argv, exitCode, out, dirs, files, source_img, i,
          content, lines, filtered_lines, pre, ops, first>>

\* ------------------------------------------------------------------ bounds
MaxRuns == 2
MaxArgs == 2
MaxLen == 4

\* ------------------------------------------------------------- file system
join(a, b) == a \o "/" \o b

assets_dir == "Assets.xcassets"
google_logo_dir == join(assets_dir, "google-logo.imageset")
output_dir == "Assets.xcassets/AppIcon.appiconset"
project_path == "class-notes-frontend.xcodeproj/project.pbxproj"

NoFile == [kind |-> "none"]
PartialFile == [kind |-> "partial"]
NoImage == [kind |-> "noimage"]

Range(s) == {s[k] : k \in DOMAIN s}
Append2(s, a, b) == Append(Append(s, a), b)

\* ------------------------------------------------- generate_app_icons.py
icon_sizes ==
    << <<"AppIcon-iOS.png", 1024>>,
       <<"AppIcon-iOS-Dark.png", 1024>>,
       <<"AppIcon-iOS-Tinted.png", 1024>>,
       <<"AppIcon-16.png", 16>>,
       <<"AppIcon-16@2x.png", 32>>,
       <<"AppIcon-32.png", 32>>,
       <<"AppIcon-32@2x.png", 64>>,
       <<"AppIcon-128.png", 128>>,
       <<"AppIcon-128@2x.png", 256>>,
       <<"AppIcon-256.png", 256>>,
       <<"AppIcon-256@2x.png", 512>>,
       <<"AppIcon-512.png", 512>>,
       <<"AppIcon-512@2x.png", 1024>> >>

IosEntry(filename) ==
    [filename |-> filename, idiom |-> "universal", platform |-> "ios",
     size |-> "1024x1024"]

IosAppearanceEntry(filename, value) ==
    [appearances |-> << [appearance |-> "luminosity", value |-> value] >>,
     filename |-> filename, idiom |-> "universal", platform |-> "ios",
     size |-> "1024x1024"]

\* mutant: the manifest names the macOS files after their logical size
MacEntryBySize(filename, scale, size) ==
    [filename |-> "AppIcon-" \o size \o "@" \o scale \o ".png",
     idiom |-> "mac", scale |-> scale, size |-> size]

\* mutant: every macOS entry is declared at scale 1x
MacEntry1x(filename, scale, size) ==
    [filename |-> filename, idiom |-> "mac", scale |-> "1x", size |-> size]

\* mutant: the macOS entries carry no scale
MacEntryNoScale(filename, scale, size) ==
    [filename |-> filename, idiom |-> "mac", size |-> size]

MacEntry(filename, scale, size) ==
    [filename |-> filename, idiom |-> "mac", scale |-> scale, size |-> size]

xcode_info == [author |-> "xcode", version |-> 1]

contents ==
    [images |->
        << IosEntry("AppIcon-iOS.png"),
           IosAppearanceEntry("AppIcon-iOS-Dark.png", "dark"),
           IosAppearanceEntry("AppIcon-iOS-Tinted.png", "tinted"),
           MacEntry("AppIcon-16.png", "1x", "16x16"),
           MacEntry("AppIcon-16@2x.png", "2x", "16x16"),
           MacEntry("AppIcon-32.png", "1x", "32x32"),
           MacEntry("AppIcon-32@2x.png", "2x", "32x32"),
           MacEntry("AppIcon-128.png", "1x", "128x128"),
           MacEntry("AppIcon-128@2x.png", "2x", "128x128"),
           MacEntry("AppIcon-256.png", "1x", "256x256"),
           MacEntry("AppIcon-256@2x.png", "2x", "256x256"),
           MacEntry("AppIcon-512.png", "1x", "512x512"),
           MacEntry("AppIcon-512@2x.png", "2x", "512x512") >>,
     info |-> xcode_info]

Json(data) == [kind |-> "json", data |-> data]

\* The paths an invocation of the icon generator may be given, and what the
\* working directory holds there.  loadable = FALSE is a file whose header
\* identifies an image but whose pixel data cannot be decoded (PIL decodes
\* lazily, at the first convert or resize).
SourcePaths ==
    {"missing.png", "notes.txt", assets_dir, "icon.png", "wide.png",
     "cut.png", "cutA.png"}

SourceFile(path) ==
    CASE path = "icon.png" ->
            [kind |-> "image", mode |-> "RGB", w |-> 1024, h |-> 1024,
             pixels |-> [from |-> path], loadable |-> TRUE]
      [] path = "wide.png" ->
            [kind |-> "image", mode |-> "RGBA", w |-> 640, h |-> 480,
             pixels |-> [from |-> path], loadable |-> TRUE]
      [] path = "cut.png" ->
            [kind |-> "image", mode |-> "P", w |-> 512, h |-> 512,
             pixels |-> [from |-> path], loadable |-> FALSE]
      [] path = "cutA.png" ->
            [kind |-> "image", mode |-> "RGBA", w |-> 512, h |-> 512,
             pixels |-> [from |-> path], loadable |-> FALSE]
      [] path = "notes.txt" -> [kind |-> "text"]
      [] OTHER -> NoFile

\* os.path.exists
exists(path) ==
    \/ path \in dirs
    \/ path \in DOMAIN files /\ files[path].kind # "none"
    \/ path \notin DOMAIN files /\ SourceFile(path).kind # "none"

\* mutant: the conversion is left outside the try block's reach, so a file
\* that cannot be decoded passes the open step
OpenRGBANoDecode(path) ==
    LET f == SourceFile(path) IN
    IF path \in dirs \/ f.kind # "image"
    THEN [ok |-> FALSE, img |-> NoImage]
    ELSE [ok |-> TRUE, img |-> [f EXCEPT !.mode = "RGBA"]]

\* Image.open followed by the conditional convert('RGBA'); ok = FALSE is
\* an exception raised inside the try block.
OpenRGBA(path) ==
    LET f == SourceFile(path) IN
    IF path \in dirs \/ f.kind # "image"
    THEN [ok |-> FALSE, img |-> NoImage]
    ELSE IF f.mode # "RGBA"
         THEN IF f.loadable
              THEN [ok |-> TRUE, img |-> [f EXCEPT !.mode = "RGBA"]]
              ELSE [ok |-> FALSE, img |-> NoImage]
         ELSE [ok |-> TRUE, img |-> f]

\* mutant: a resize that keeps the aspect ratio of the source
ResizeKeepAspect(img, size) ==
    [kind |-> "image", mode |-> img.mode, w |-> size,
     h |-> (img.h * size) \div img.w,
     pixels |-> [resampled |-> "LANCZOS"]]

\* Image.resize((size, size), LANCZOS) and the PNG file it is saved as
Resize(img, size) ==
    [kind |-> "image", mode |-> img.mode, w |-> size, h |-> size,
     pixels |-> [resampled |-> "LANCZOS"]]

IconPath(k) == join(output_dir, icon_sizes[k][1])
contents_json_path == join(output_dir, "Contents.json")

Exit(code) == pc' = "exited" /\ exitCode' = code

Snapshot == [dirs |-> dirs, files |-> files]

Invoke(name, args) ==
    /\ script = name
    /\ pc \in {"idle", "exited"}
    /\ runs < MaxRuns
    /\ runs' = runs + 1
    /\ argv' = <<name>> \o args
    /\ exitCode' = -1
    /\ out' = <<>>
    /\ ops' = <<>>
    /\ pre' = Snapshot
    /\ source_img' = NoImage
    /\ i' = 0
    /\ content' = <<>>
    /\ lines' = <<>>
    /\ filtered_lines' = <<>>
    /\ UNCHANGED <<script, dirs, files, first>>

\* the argument lists tried: any source path first, then up to MaxArgs - 1
\* further arguments
ExtraArgs == {"icon.png", "missing.png"}
ArgLists ==
    {<<>>} \cup {<<p>> \o rest : p \in SourcePaths,
                 rest \in UNION {[1..n -> ExtraArgs] : n \in 0..(MaxArgs - 1)}}

IconInvoke ==
    \E args \in ArgLists :
        /\ Invoke("generate_app_icons.py", args)
        /\ pc' = "main"

\* mutant: only a missing argument is a usage error
UsageErrorMissingOnly == Len(argv) < 2

UsageError == Len(argv) # 2

MainUsage ==
    /\ script = "generate_app_icons.py" /\ pc = "main"
    /\ UsageError
    /\ out' = Append2(out, [msg |-> "Usage"], [msg |-> "Example"])
    /\ Exit(1)
    /\ UNCHANGED <<script, runs, argv, dirs, files, source_img, i, content,
                   lines, filtered_lines, pre, ops, first>>

MainNotFound ==
    /\ script = "generate_app_icons.py" /\ pc = "main"
    /\ ~UsageError
    /\ ~exists(argv[2])
    /\ out' = Append(out, [msg |-> "Error: not found", path |-> argv[2]])
    /\ Exit(1)
    /\ UNCHANGED <<script, runs, argv, dirs, files, source_img, i, content,
                   lines, filtered_lines, pre, ops, first>>

MainGenerate ==
    /\ script = "generate_app_icons.py" /\ pc = "main"
    /\ ~UsageError
    /\ exists(argv[2])
    /\ pc' = "makedirs"
    /\ UNCHANGED <<script, runs, argv, exitCode, out, dirs, files, source_img,
                   i, content, lines, filtered_lines, pre, ops, first>>

\* os.makedirs(d, exist_ok=True): d and its missing parent
MissingDirs(d) == SelectSeq(<<assets_dir, d>>, LAMBDA x : x \notin dirs)

Makedirs(d) ==
    /\ dirs' = dirs \cup {assets_dir, d}
    /\ ops' = ops \o [k \in DOMAIN MissingDirs(d) |->
                         [op |-> "mkdir", path |-> MissingDirs(d)[k]]]

GenMakedirs ==
    /\ script = "generate_app_icons.py" /\ pc = "makedirs"
    /\ Makedirs(output_dir)
    /\ pc' = "open"
    /\ UNCHANGED <<script, runs, argv, exitCode, out, files, source_img, i,
                   content, lines, filtered_lines, pre, first>>

GenOpen ==
    /\ script = "generate_app_icons.py" /\ pc = "open"
    /\ OpenRGBA(argv[2]).ok
    /\ source_img' = OpenRGBA(argv[2]).img
    /\ i' = 1
    /\ pc' = "loop"
    /\ UNCHANGED <<script, runs, argv, exitCode, out, dirs, files, content,
                   lines, filtered_lines, pre, ops, first>>

GenOpenError ==
    /\ script = "generate_app_icons.py" /\ pc = "open"
    /\ ~OpenRGBA(argv[2]).ok
    /\ out' = Append(out, [msg |-> "Error opening image"])
    /\ Exit(1)
    /\ UNCHANGED <<script, runs, argv, dirs, files, source_img, i, content,
                   lines, filtered_lines, pre, ops, first>>

\* one iteration of the resize loop
GenSave ==
    /\ script = "generate_app_icons.py" /\ pc = "loop"
    /\ i <= Len(icon_sizes)
    /\ source_img.loadable
    /\ files' = [files EXCEPT ![IconPath(i)] =
                    Resize(source_img, icon_sizes[i][2])]
    /\ ops' = Append(ops, [op |-> "save", path |-> IconPath(i)])
    /\ out' = Append(out, [msg |-> "Generated", filename |-> icon_sizes[i][1],
                           size |-> icon_sizes[i][2]])
    /\ i' = i + 1
    /\ UNCHANGED <<script, pc, runs, argv, exitCode, dirs, source_img,
                   content, lines, filtered_lines, pre, first>>

\* resize or save raises in iteration i: nothing catches it.  The file being
\* written is left as it was or, when the fault hits after it was opened for
\* writing, incomplete.
GenSaveRaises ==
    /\ script = "generate_app_icons.py" /\ pc = "loop"
    /\ i <= Len(icon_sizes)
    /\ \E left \in {files[IconPath(i)], PartialFile} :
          /\ (~source_img.loadable => left = files[IconPath(i)])
          /\ files' = [files EXCEPT ![IconPath(i)] = left]
          /\ ops' = IF left = files[IconPath(i)] THEN ops
                    ELSE Append(ops, [op |-> "truncate", path |-> IconPath(i)])
    /\ out' = Append(out, [msg |-> "Traceback"])
    /\ Exit(1)
    /\ UNCHANGED <<script, runs, argv, dirs, source_img, i, content, lines,
                   filtered_lines, pre, first>>

\* mutant: the manifest is written as soon as the first image is
GenManifestEarly ==
    /\ script = "generate_app_icons.py" /\ pc = "loop"
    /\ i > 1
    /\ files' = [files EXCEPT ![contents_json_path] = Json(contents)]
    /\ ops' = Append(ops, [op |-> "write", path |-> contents_json_path])
    /\ out' = Append2(out, [msg |-> "Updated Contents.json"],
                      [msg |-> "All icons generated successfully"])
    /\ Exit(0)
    /\ UNCHANGED <<script, runs, argv, dirs, source_img, i, content, lines,
                   filtered_lines, pre, first>>

\* after the loop: json.dump(contents) into Contents.json
GenManifest ==
    /\ script = "generate_app_icons.py" /\ pc = "loop"
    /\ i > Len(icon_sizes)
    /\ files' = [files EXCEPT ![contents_json_path] = Json(contents)]
    /\ ops' = Append(ops, [op |-> "write", path |-> contents_json_path])
    /\ out' = Append2(out, [msg |-> "Updated Contents.json"],
                      [msg |-> "All icons generated successfully"])
    /\ Exit(0)
    /\ UNCHANGED <<script, runs, argv, dirs, source_img, i, content, lines,
                   filtered_lines, pre, first>>

\* ----------------------------------------------- download_google_logo.py
\* mutant: the 3x image is made at four times the base size
sizes4x == << <<24, "1x">>, <<48, "2x">>, <<96, "3x">> >>

sizes == << <<24, "1x">>, <<48, "2x">>, <<72, "3x">> >>

\* Image.new(mode, (size, size), color) and the PNG file it is saved as
New(mode, size, color) ==
    [kind |-> "image", mode |-> mode, w |-> size, h |-> size,
     pixels |-> [fill |-> color]]

LogoFilename(scale) ==
    IF scale # "1x" THEN "google-logo@" \o scale \o ".png"
    ELSE "google-logo.png"

LogoPath(k) == join(google_logo_dir, LogoFilename(sizes[k][2]))
contents_path == join(google_logo_dir, "Contents.json")

logo_contents ==
    [images |->
        << [filename |-> "google-logo.png", idiom |-> "universal",
            scale |-> "1x"],
           [filename |-> "google-logo@2x.png", idiom |-> "universal",
            scale |-> "2x"],
           [filename |-> "google-logo@3x.png", idiom |-> "universal",
            scale |-> "3x"] >>,
     info |-> xcode_info]

LogoInvoke ==
    /\ Invoke("download_google_logo.py", <<>>)
    /\ pc' = "makedirs"

LogoMakedirs ==
    /\ script = "download_google_logo.py" /\ pc = "makedirs"
    /\ Makedirs(google_logo_dir)
    /\ i' = 1
    /\ pc' = "loop"
    /\ UNCHANGED <<script, runs, argv, exitCode, out, files, source_img,
                   content, lines, filtered_lines, pre, first>>

LogoSave ==
    /\ script = "download_google_logo.py" /\ pc = "loop"
    /\ i <= Len(sizes)
    /\ files' = [files EXCEPT ![LogoPath(i)] =
                    New("RGBA", sizes[i][1], <<255, 255, 255, 255>>)]
    /\ ops' = Append(ops, [op |-> "save", path |-> LogoPath(i)])
    /\ out' = Append(out, [msg |-> "Created placeholder",
                           filename |-> LogoFilename(sizes[i][2])])
    /\ i' = i + 1
    /\ UNCHANGED <<script, pc, runs, argv, exitCode, dirs, source_img,
                   content, lines, filtered_lines, pre, first>>

\* img.save raises in iteration i: nothing catches it
LogoSaveRaises ==
    /\ script = "download_google_logo.py" /\ pc = "loop"
    /\ i <= Len(sizes)
    /\ \E left \in {files[LogoPath(i)], PartialFile} :
          /\ files' = [files EXCEPT ![LogoPath(i)] = left]
          /\ ops' = IF left = files[LogoPath(i)] THEN ops
                    ELSE Append(ops, [op |-> "truncate", path |-> LogoPath(i)])
    /\ out' = Append(out, [msg |-> "Traceback"])
    /\ Exit(1)
    /\ UNCHANGED <<script, runs, argv, dirs, source_img, i, content, lines,
                   filtered_lines, pre, first>>

\* mutant: the manifest is extended with the three entries, not replaced
LogoManifestAppend ==
    /\ script = "download_google_logo.py" /\ pc = "loop"
    /\ i > Len(sizes)
    /\ files' = [files EXCEPT ![contents_path] =
                    Json([logo_contents EXCEPT !.images =
                            (IF files[contents_path].kind = "json"
                             THEN files[contents_path].data.images
                             ELSE <<>>) \o logo_contents.images])]
    /\ ops' = Append(ops, [op |-> "write", path |-> contents_path])
    /\ out' = Append2(out, [msg |-> "Google logo placeholder created"],
                      [msg |-> "IMPORTANT"])
    /\ Exit(0)
    /\ first' = IF first.done THEN first
                ELSE [done |-> TRUE, run |-> runs, dirs |-> dirs,
                      files |-> files']
    /\ UNCHANGED <<script, runs, argv, dirs, source_img, i, content, lines,
                   filtered_lines, pre>>

LogoManifest ==
    /\ script = "download_google_logo.py" /\ pc = "loop"
    /\ i > Len(sizes)
    /\ files' = [files EXCEPT ![contents_path] = Json(logo_contents)]
    /\ ops' = Append(ops, [op |-> "write", path |-> contents_path])
    /\ out' = Append2(out, [msg |-> "Google logo placeholder created"],
                      [msg |-> "IMPORTANT"])
    /\ Exit(0)
    /\ first' = IF first.done THEN first
                ELSE [done |-> TRUE, run |-> runs, dirs |-> dirs,
                      files |-> files']
    /\ UNCHANGED <<script, runs, argv, dirs, source_img, i, content, lines,
                   filtered_lines, pre>>

\* ---------------------------------------------------------- fix_project.py
\* Text is a sequence of pieces: the three substrings the script looks for,
\* the newline, the carriage return, and "x" for any other character.
Pieces == {"subscription.proto", "PBXBuildFile", "Sources", "x", "\n", "\r"}

Text(chars) == [kind |-> "text", chars |-> chars]

\* f.read() of a file opened with open(path, 'r'): text mode with universal
\* newlines, "\r\n" and "\r" come back as "\n"
RECURSIVE Read(_)
Read(s) ==
    IF s = <<>> THEN <<>>
    ELSE IF s[1] = "\r"
         THEN IF Len(s) >= 2 /\ s[2] = "\n"
              THEN <<"\n">> \o Read(SubSeq(s, 3, Len(s)))
              ELSE <<"\n">> \o Read(Tail(s))
         ELSE <<s[1]>> \o Read(Tail(s))

\* str.split('\n')
RECURSIVE Split(_)
Split(s) ==
    IF "\n" \notin Range(s) THEN <<s>>
    ELSE LET k == CHOOSE n \in 1..Len(s) :
                    s[n] = "\n" /\ \A m \in 1..(n - 1) : s[m] # "\n"
         IN <<SubSeq(s, 1, k - 1)>> \o Split(SubSeq(s, k + 1, Len(s)))

\* '\n'.join(ls)
RECURSIVE Join(_)
Join(ls) ==
    IF ls = <<>> THEN <<>>
    ELSE IF Len(ls) = 1 THEN ls[1]
    ELSE ls[1] \o <<"\n">> \o Join(Tail(ls))

\* mutant: every line that names the proto file is dropped
SkipsEveryProtoLine(line) == "subscription.proto" \in Range(line)

\* the test of the if statement in the filter loop
Skips(line) ==
    /\ "subscription.proto" \in Range(line)
    /\ ("PBXBuildFile" \in Range(line) \/ "Sources" \in Range(line))

ScrubInvoke ==
    /\ Invoke("fix_project.py", <<>>)
    /\ pc' = "read"

ScrubRead ==
    /\ script = "fix_project.py" /\ pc = "read"
    /\ files[project_path].kind = "text"
    /\ content' = Read(files[project_path].chars)
    /\ lines' = Split(content')
    /\ filtered_lines' = <<>>
    /\ i' = 1
    /\ pc' = "loop"
    /\ UNCHANGED <<script, runs, argv, exitCode, out, dirs, files,
                   source_img, pre, ops, first>>

\* open(..., 'r') raises: the project file is missing
ScrubReadRaises ==
    /\ script = "fix_project.py" /\ pc = "read"
    /\ files[project_path].kind # "text"
    /\ out' = Append(out, [msg |-> "Traceback"])
    /\ Exit(1)
    /\ UNCHANGED <<script, runs, argv, dirs, files, source_img, i, content,
                   lines, filtered_lines, pre, ops, first>>

ScrubSkip ==
    /\ script = "fix_project.py" /\ pc = "loop"
    /\ i <= Len(lines)
    /\ Skips(lines[i])
    /\ out' = Append(out, [msg |-> "Removing line", line |-> lines[i]])
    /\ i' = i + 1
    /\ UNCHANGED <<script, pc, runs, argv, exitCode, dirs, files, source_img,
                   content, lines, filtered_lines, pre, ops, first>>

ScrubKeep ==
    /\ script = "fix_project.py" /\ pc = "loop"
    /\ i <= Len(lines)
    /\ ~Skips(lines[i])
    /\ filtered_lines' = Append(filtered_lines, lines[i])
    /\ i' = i + 1
    /\ UNCHANGED <<script, pc, runs, argv, exitCode, out, dirs, files,
                   source_img, content, lines, pre, ops, first>>

\* f.write(content) in text mode writes "\n" as os.linesep, which is "\n"
\* where Xcode projects are built
ScrubWrite ==
    /\ script = "fix_project.py" /\ pc = "loop"
    /\ i > Len(lines)
    /\ content' = Join(filtered_lines)
    /\ files' = [files EXCEPT ![project_path] = Text(content')]
    /\ ops' = Append(ops, [op |-> "write", path |-> project_path])
    /\ out' = Append(out, [msg |-> "Fixed project configuration"])
    /\ Exit(0)
    /\ UNCHANGED <<script, runs, argv, dirs, source_img, i, lines,
                   filtered_lines, pre, first>>

\* ------------------------------------------------------------ initial state
\* the files the model tracks: the names the two generators write, a file
\* of another name in the logo image set, and the project file
IconNames ==
    {"AppIcon-iOS.png", "AppIcon-iOS-Dark.png", "AppIcon-iOS-Tinted.png",
     "AppIcon-16.png", "AppIcon-16@2x.png", "AppIcon-32.png",
     "AppIcon-32@2x.png", "AppIcon-128.png", "AppIcon-128@2x.png",
     "AppIcon-256.png", "AppIcon-256@2x.png", "AppIcon-512.png",
     "AppIcon-512@2x.png"}
LogoNames == {"google-logo.png", "google-logo@2x.png", "google-logo@3x.png"}
IconPaths == {join(output_dir, n) : n \in IconNames}
LogoPaths == {join(google_logo_dir, n) : n \in LogoNames}
logo_svg_path == join(google_logo_dir, "google-logo.svg")

FilePaths ==
    IconPaths \cup LogoPaths
        \cup {contents_json_path, contents_path, logo_svg_path, project_path}

EmptyFiles == [p \in FilePaths |-> NoFile]

\* what an asset catalog may hold before the scripts ever ran
OldIcon ==
    [kind |-> "image", mode |-> "RGB", w |-> 1024, h |-> 1024,
     pixels |-> [from |-> "old.png"]]
OldContents ==
    [images |-> << [idiom |-> "universal", platform |-> "ios",
                    size |-> "1024x1024"] >>,
     info |-> xcode_info]
OfficialLogo ==
    [kind |-> "image", mode |-> "RGBA", w |-> 96, h |-> 96,
     pixels |-> [from |-> "official.png"]]
SvgFile == [kind |-> "svg"]

Texts == UNION {[1..n -> Pieces] : n \in 0..MaxLen}

IconsStart ==
    \E n \in {0, 2, Len(icon_sizes)}, m \in {NoFile, Json(OldContents)},
       d \in {{}, {assets_dir}, {assets_dir, output_dir}} :
        /\ (output_dir \notin d => n = 0 /\ m = NoFile)
        /\ script = "generate_app_icons.py"
        /\ dirs = d
        /\ files = [p \in FilePaths |->
                      IF \E k \in 1..n : p = IconPath(k) THEN OldIcon
                      ELSE IF p = contents_json_path THEN m
                      ELSE NoFile]

LogoStart ==
    \E n \in {0, 1, Len(sizes)}, m \in {NoFile, Json(logo_contents)},
       s \in {NoFile, SvgFile},
       d \in {{}, {assets_dir}, {assets_dir, google_logo_dir}} :
        /\ (google_logo_dir \notin d => n = 0 /\ m = NoFile /\ s = NoFile)
        /\ script = "download_google_logo.py"
        /\ dirs = d
        /\ files = [p \in FilePaths |->
                      IF \E k \in 1..n : p = LogoPath(k) THEN OfficialLogo
                      ELSE IF p = contents_path THEN m
                      ELSE IF p = logo_svg_path THEN s
                      ELSE NoFile]

ScrubStart ==
    /\ script = "fix_project.py"
    /\ dirs = {}
    /\ \E f \in {NoFile} \cup {Text(t) : t \in Texts} :
          files = [EmptyFiles EXCEPT ![project_path] = f]

InitProcess ==
    /\ pc = "idle"
    /\ runs = 0
    /\ argv = <<>>
    /\ exitCode = -1
    /\ out = <<>>
    /\ source_img = NoImage
    /\ i = 0
    /\ content = <<>>
    /\ lines = <<>>
    /\ filtered_lines = <<>>
    /\ pre = Snapshot
    /\ ops = <<>>
    /\ first = [done |-> FALSE]

NextIcons ==
    \/ IconInvoke \/ MainUsage \/ MainNotFound \/ MainGenerate
    \/ GenMakedirs \/ GenOpen \/ GenOpenError
    \/ GenSave \/ GenSaveRaises \/ GenManifest

NextLogo ==
    \/ LogoInvoke \/ LogoMakedirs \/ LogoSave \/ LogoSaveRaises
    \/ LogoManifest

NextScrub ==
    \/ ScrubInvoke \/ ScrubRead \/ ScrubReadRaises
    \/ ScrubSkip \/ ScrubKeep \/ ScrubWrite

\* one specification per script: the scripts share nothing but the file
\* system, and write disjoint paths of it
InitIcons == IconsStart /\ InitProcess
InitLogo == LogoStart /\ InitProcess
InitScrub == ScrubStart /\ InitProcess

SpecIcons == InitIcons /\ [][NextIcons]_vars
SpecLogo == InitLogo /\ [][NextLogo]_vars
SpecScrub == InitScrub /\ [][NextScrub]_vars

\* =================================================================== claims
IconGen == script = "generate_app_icons.py"
LogoGen == script = "download_google_logo.py"
Scrubber == script = "fix_project.py"
Exited == pc = "exited"
Completed == pc = "exited" /\ exitCode = 0
Crashed == pc = "exited" /\ \E m \in Range(out) : m.msg = "Traceback"
Saves == SelectSeq(ops, LAMBDA o : o.op = "save")
IsSquare(f, side) == f.kind = "image" /\ f.w = side /\ f.h = side

\* the table the specification prescribes: three iOS variants at 1024 and
\* the macOS sizes 16 to 512 at 1x and 2x, in the order they are generated
PrescribedTable ==
    << <<"AppIcon-iOS.png", 1024>>, <<"AppIcon-iOS-Dark.png", 1024>>,
       <<"AppIcon-iOS-Tinted.png", 1024>>,
       <<"AppIcon-16.png", 16>>, <<"AppIcon-16@2x.png", 2 * 16>>,
       <<"AppIcon-32.png", 32>>, <<"AppIcon-32@2x.png", 2 * 32>>,
       <<"AppIcon-128.png", 128>>, <<"AppIcon-128@2x.png", 2 * 128>>,
       <<"AppIcon-256.png", 256>>, <<"AppIcon-256@2x.png", 2 * 256>>,
       <<"AppIcon-512.png", 512>>, <<"AppIcon-512@2x.png", 2 * 512>> >>
PrescribedPath(k) == join(output_dir, PrescribedTable[k][1])

ManifestOf(path) == files[path].data.images
Generated == {m \in Range(out) : m.msg = "Generated"}

\* C2: after a completed run the manifest has as many entries as image
\* files were generated by the run, and the filenames of the manifest are
\* exactly the filenames the resize loop wrote.
C2_ManifestMatchesFiles ==
    (IconGen /\ Completed) =>
        /\ files[contents_json_path].kind = "json"
        /\ Len(ManifestOf(contents_json_path)) = Len(Saves)
        /\ Len(ManifestOf(contents_json_path)) = Cardinality(Generated)
        /\ \A e \in Range(ManifestOf(contents_json_path)) :
               "filename" \in DOMAIN e
        /\ {join(output_dir, e.filename) :
               e \in Range(ManifestOf(contents_json_path))}
             = {o.path : o \in Range(Saves)}
        /\ {e.filename : e \in Range(ManifestOf(contents_json_path))}
             = {m.filename : m \in Generated}

\* a completed run that replaced an older manifest
C2_Witness ==
    /\ IconGen /\ Completed
    /\ pre.files[contents_json_path] = Json(OldContents)
    /\ files[contents_json_path] # pre.files[contents_json_path]

\* what exists in the working directory when the invocation starts
ExistedAtStart(path) ==
    \/ path \in pre.dirs
    \/ path \in {"notes.txt", "icon.png", "wide.png", "cut.png", "cutA.png"}

NothingWritten ==
    ops = <<>> /\ dirs = pre.dirs /\ files = pre.files

\* C3: invoked with an argument count other than one, or with one argument
\* naming a path that does not exist, the icon generator exits with status
\* 1 and has written nothing: no directory created, no file written.
C3_BadInvocationWritesNothing ==
    (IconGen /\ Exited /\ (Len(argv) # 2 \/ ~ExistedAtStart(argv[2]))) =>
        exitCode = 1 /\ NothingWritten /\ ~Crashed

\* two arguments, the first a good image, and no output directory yet
C3_Witness ==
    /\ IconGen /\ Exited
    /\ Len(argv) = 3 /\ argv[2] = "icon.png"
    /\ output_dir \notin dirs

\* the sources that exist but cannot be opened or converted
Unopenable(path) ==
    \/ path \in {"notes.txt", "cut.png"}
    \/ path \in pre.dirs

\* C7: when the source exists but opening or converting it fails, the
\* error is caught and the run exits with status 1 before any image or
\* manifest is written: the output directory exists, and every file,
\* a manifest that was there included, is as it was.
C7_OpenFailureWritesNoFile ==
    (IconGen /\ Exited /\ Len(argv) = 2 /\ Unopenable(argv[2])) =>
        /\ exitCode = 1
        /\ ~Crashed
        /\ \E m \in Range(out) : m.msg = "Error opening image"
        /\ files = pre.files
        /\ dirs = pre.dirs \cup {assets_dir, output_dir}
        /\ \A o \in Range(ops) : o.op = "mkdir"

\* an undecodable source, and the output directory created by the run
C7_Witness ==
    /\ IconGen /\ Exited /\ Len(argv) = 2 /\ argv[2] = "cut.png"
    /\ output_dir \notin pre.dirs /\ output_dir \in dirs
    /\ \E o \in Range(ops) : o.op = "mkdir"

\* C8 as stated: every descriptor of the icon manifest has a filename, a size,
\* a scale in {1x, 2x, 3x} and an idiom in {ios, mac, universal}, and
\* nothing but the appearance is optional.
C8_EveryEntryHasScale ==
    (IconGen /\ Completed) =>
        \A e \in Range(ManifestOf(contents_json_path)) :
            /\ {"filename", "size", "scale", "idiom"} \subseteq DOMAIN e
            /\ e.scale \in {"1x", "2x", "3x"}
            /\ e.idiom \in {"ios", "mac", "universal"}
            /\ DOMAIN e \subseteq
                   {"filename", "size", "scale", "idiom", "appearances"}

\* C8 amended: every descriptor has a filename, a size and an idiom in
\* {mac, universal}.  A mac descriptor has a scale in {1x, 2x} and nothing
\* else; a universal descriptor has platform "ios", no scale, and may have
\* one luminosity appearance of value dark or tinted.
C8_EntryShapes ==
    (IconGen /\ Completed) =>
        \A e \in Range(ManifestOf(contents_json_path)) :
            /\ {"filename", "size", "idiom"} \subseteq DOMAIN e
            /\ e.idiom \in {"mac", "universal"}
            /\ e.idiom = "mac" =>
                   /\ DOMAIN e = {"filename", "size", "idiom", "scale"}
                   /\ e.scale \in {"1x", "2x"}
            /\ e.idiom = "universal" =>
                   /\ {"filename", "size", "idiom", "platform"}
                          \subseteq DOMAIN e
                   /\ DOMAIN e \subseteq {"filename", "size", "idiom",
                                          "platform", "appearances"}
                   /\ e.platform = "ios"
                   /\ "appearances" \in DOMAIN e =>
                          /\ Len(e.appearances) = 1
                          /\ e.appearances[1].appearance = "luminosity"
                          /\ e.appearances[1].value \in {"dark", "tinted"}

\* a written manifest with entries of both shapes
C8_Witness ==
    /\ IconGen /\ Completed
    /\ \E e \in Range(ManifestOf(contents_json_path)) : "scale" \in DOMAIN e
    /\ \E e \in Range(ManifestOf(contents_json_path)) :
           "scale" \notin DOMAIN e /\ "appearances" \in DOMAIN e

\* C9: the manifest is written only after all 13 images were saved, in
\* table order.  When a save fails at step k, nothing catches it: the k-1
\* images saved before are on disk, the images after k and the manifest
\* are as they were before the run, and the run has made no further save.
C9_ManifestLastNoRollback ==
    IconGen =>
        /\ Len(Saves) <= 13
        /\ \A k \in 1..Len(Saves) : Saves[k].path = PrescribedPath(k)
        /\ \A j \in 1..Len(ops) :
               ops[j].op = "write" =>
                   j = Len(ops) /\ Len(Saves) = 13 /\ Completed
        /\ Crashed =>
               /\ exitCode = 1
               /\ Len(Saves) < 13
               /\ \A k \in 1..Len(Saves) :
                      /\ IsSquare(files[PrescribedPath(k)],
                                  PrescribedTable[k][2])
                      /\ files[PrescribedPath(k)].pixels
                             = [resampled |-> "LANCZOS"]
               /\ \A k \in (Len(Saves) + 2)..13 :
                      files[PrescribedPath(k)] = pre.files[PrescribedPath(k)]
               /\ files[contents_json_path] = pre.files[contents_json_path]

\* a save failed at step 5 over a directory of older icons and manifest
C9_Witness ==
    /\ IconGen /\ Crashed /\ Len(Saves) = 4
    /\ files[PrescribedPath(4)] # pre.files[PrescribedPath(4)]
    /\ files[PrescribedPath(6)] = OldIcon
    /\ files[contents_json_path] = Json(OldContents)

\* the numbers a manifest's size and scale strings stand for
LogicalSide(size) ==
    CASE size = "16x16" -> 16
      [] size = "32x32" -> 32
      [] size = "128x128" -> 128
      [] size = "256x256" -> 256
      [] size = "512x512" -> 512
      [] size = "1024x1024" -> 1024
ScaleFactor(scale) ==
    CASE scale = "1x" -> 1
      [] scale = "2x" -> 2
      [] scale = "3x" -> 3

\* C10: after a completed run, the file generated under a macOS entry's
\* filename has the entry's logical size times its scale as its pixel side,
\* and the file under an iOS entry's filename has the declared 1024.
C10_PixelsAreSizeTimesScale ==
    (IconGen /\ Completed) =>
        \A e \in Range(ManifestOf(contents_json_path)) :
            /\ e.idiom = "mac" =>
                   IsSquare(files[join(output_dir, e.filename)],
                            LogicalSide(e.size) * ScaleFactor(e.scale))
            /\ e.idiom # "mac" =>
                   /\ e.platform = "ios"
                   /\ LogicalSide(e.size) = 1024
                   /\ IsSquare(files[join(output_dir, e.filename)], 1024)

\* a completed run whose 2x file of the 16 point icon is 32 pixels wide
C10_Witness ==
    /\ IconGen /\ Completed
    /\ \E e \in Range(ManifestOf(contents_json_path)) :
          /\ e.idiom = "mac" /\ e.scale = "2x" /\ e.size = "16x16"
          /\ files[join(output_dir, e.filename)].w = 32

\* the files of the logo image set
LogoDirPaths == LogoPaths \cup {contents_path, logo_svg_path}
LogoPng(name) == files[join(google_logo_dir, name)]

\* C4: when the logo generator has completed a run and then completes
\* another, the directory is as the first run left it: the three images
\* and the manifest are overwritten under the same names and no file is
\* added, so it holds exactly 3 image files and 1 manifest (a file of
\* another name that was there before is still there, untouched).
C4_SecondRunOverwrites ==
    (LogoGen /\ Completed /\ first.done /\ first.run < runs) =>
        /\ files = first.files
        /\ dirs = first.dirs
        /\ {p \in LogoDirPaths : files[p].kind = "image"} = LogoPaths
        /\ Cardinality({p \in LogoDirPaths : files[p].kind = "image"}) = 3
        /\ Cardinality({p \in LogoDirPaths : files[p].kind = "json"}) = 1
        /\ files[contents_path].kind = "json"
        /\ {p \in LogoDirPaths : files[p].kind # "none"}
             = {p \in LogoDirPaths : first.files[p].kind # "none"}

\* the second of two completed runs in a row
C4_Witness ==
    /\ LogoGen /\ Completed /\ runs = 2
    /\ first.done /\ first.run = 1
    /\ pre.files = first.files
    /\ Len(Saves) = 3

\* C6: a completed run of the logo generator has saved three square RGBA
\* images of side 24, 48 and 72 and then written a manifest of exactly
\* three entries, each of idiom universal, whose filename and scale pairs
\* are those of the images: google-logo.png at 1x, google-logo@2x.png at
\* 2x, google-logo@3x.png at 3x.
C6_ThreeLogosThenManifest ==
    (LogoGen /\ Completed) =>
        /\ Len(ops) >= 4
        /\ SubSeq(ops, Len(ops) - 3, Len(ops)) =
              << [op |-> "save", path |-> join(google_logo_dir, "google-logo.png")],
                 [op |-> "save", path |-> join(google_logo_dir, "google-logo@2x.png")],
                 [op |-> "save", path |-> join(google_logo_dir, "google-logo@3x.png")],
                 [op |-> "write", path |-> contents_path] >>
        /\ Len(Saves) = 3
        /\ IsSquare(LogoPng("google-logo.png"), 24)
        /\ IsSquare(LogoPng("google-logo@2x.png"), 48)
        /\ IsSquare(LogoPng("google-logo@3x.png"), 72)
        /\ \A p \in LogoPaths : files[p].mode = "RGBA"
        /\ files[contents_path].kind = "json"
        /\ Len(ManifestOf(contents_path)) = 3
        /\ \A e \in Range(ManifestOf(contents_path)) :
              /\ DOMAIN e = {"filename", "idiom", "scale"}
              /\ e.idiom = "universal"
              /\ IsSquare(LogoPng(e.filename), 24 * ScaleFactor(e.scale))
        /\ {<<e.filename, e.scale>> : e \in Range(ManifestOf(contents_path))}
             = {<<"google-logo.png", "1x">>, <<"google-logo@2x.png", "2x">>,
                <<"google-logo@3x.png", "3x">>}

\* a completed run that replaced logos of another size
C6_Witness ==
    /\ LogoGen /\ Completed
    /\ \A p \in LogoPaths : pre.files[p] = OfficialLogo
    /\ \A p \in LogoPaths : files[p] # OfficialLogo

\* the removal test as the claim words it
RemovalTest(line) ==
    /\ \E k \in DOMAIN line : line[k] = "subscription.proto"
    /\ \E k \in DOMAIN line : line[k] \in {"PBXBuildFile", "Sources"}

\* the lines of a text, split at "\n" only
RECURSIVE NewlineLines(_)
NewlineLines(s) ==
    IF \A k \in DOMAIN s : s[k] # "\n" THEN <<s>>
    ELSE LET k == CHOOSE n \in DOMAIN s :
                    s[n] = "\n" /\ \A m \in 1..(n - 1) : s[m] # "\n"
         IN <<SubSeq(s, 1, k - 1)>> \o NewlineLines(SubSeq(s, k + 1, Len(s)))

IsLineEnd(s, k) == s[k] = "\n" \/ s[k] = "\r"

\* the lines of a text, split at every line end: "\n", "\r\n" or "\r"
RECURSIVE TextLines(_)
TextLines(s) ==
    IF \A k \in DOMAIN s : ~IsLineEnd(s, k) THEN <<s>>
    ELSE LET k == CHOOSE n \in DOMAIN s :
                    IsLineEnd(s, n) /\ \A m \in 1..(n - 1) : ~IsLineEnd(s, m)
             skip == IF s[k] = "\r" /\ k < Len(s) /\ s[k + 1] = "\n"
                     THEN 2 ELSE 1
         IN <<SubSeq(s, 1, k - 1)>> \o TextLines(SubSeq(s, k + skip, Len(s)))

Input == pre.files[project_path].chars
Written == files[project_path].chars
Keep(ls) == SelectSeq(ls, LAMBDA l : ~RemovalTest(l))
RemovedLog ==
    [k \in DOMAIN SelectSeq(out, LAMBDA m : m.msg = "Removing line") |->
        SelectSeq(out, LAMBDA m : m.msg = "Removing line")[k].line]

\* the file written holds exactly the lines ls: nothing when ls is empty
WrittenIs(ls) ==
    /\ files[project_path].kind = "text"
    /\ ls # <<>> => NewlineLines(Written) = ls
    /\ ls = <<>> => Written = <<>>

\* C5 as stated: for every input, a completed run of the scrubber has
\* written back exactly the input's newline-separated lines that fail the
\* removal test, verbatim and in order.
C5_KeepsNewlineSeparatedLines ==
    (Scrubber /\ Completed) => WrittenIs(Keep(NewlineLines(Input)))

\* C5 amended: a completed run of the scrubber has written back exactly the
\* input's lines that fail the removal test, verbatim and in order, where
\* the input's lines are the ones text mode reads: split at "\n", "\r\n"
\* and "\r" alike.  Each removed line is printed.  For an input without
\* carriage returns these are the newline-separated lines.
C5_ScrubberKeepsNonMatching ==
    (Scrubber /\ Completed) =>
        /\ WrittenIs(Keep(TextLines(Input)))
        /\ RemovedLog = SelectSeq(TextLines(Input), RemovalTest)
        /\ "\r" \notin Range(Input) =>
               WrittenIs(Keep(NewlineLines(Input)))

\* a run that removed a line and kept another that names the proto file
C5_Witness ==
    /\ Scrubber /\ Completed
    /\ \E l \in Range(TextLines(Input)) : RemovalTest(l)
    /\ \E l \in Range(NewlineLines(Written)) : "subscription.proto" \in Range(l)

====
